---- MODULE Spec2Model ----
(***************************************************************************)
(* A model of the emergence crate (src/src/lib.rs): the AoC client, its    *)
(* constructors and credential resolution, and read_or_fetch with the      *)
(* cache read, the release gate, the network fetch and the cache write.    *)
(*                                                                         *)
(* The file system, the process environment, the clock and the network are *)
(* the environment: their answers are inputs chosen with \E.               *)
(***************************************************************************)
EXTENDS Integers, Sequences, FiniteSets, TLC

(***************************************************************************)
(* Bounds of the model.                                                    *)
(***************************************************************************)
\* files already present below the cache directory before any call
MaxPre == 1
\* depth of the current working directory below the file system root
MaxDepth == 1
\* the deepest current directory of the tokenfile search taken step by step
MaxClimb == 3

(***************************************************************************)
(* Option<T>: None is the empty sequence, Some(x) the one-element one.     *)
(***************************************************************************)
None == << >>
Some(x) == << x >>
IsSome(o) == Len(o) = 1
Unwrap(o) == o[1]

(***************************************************************************)
(* Program constants.                                                      *)
(***************************************************************************)
\* read_or_fetch: `if day > 25`
LastDay == 25
\* with_path_and_token: `assert!(year < 3000, ..)`
YearLimit == 3000
\* fetch: NaiveDate::from_ymd_opt(year, 12, day)
December == 12
\* fetch: FixedOffset::west_opt(5 * 60 * 60)
WestSecs == 5 * 60 * 60
\* seconds in a day (chrono's bound on an offset and on a time of day)
DaySecs == 24 * 60 * 60

\* chrono: the years a NaiveDate can hold
MinYear == -262143
MaxYear == 262142

(***************************************************************************)
(* chrono: calendar dates, naive date-times and date-times with an offset. *)
(***************************************************************************)
IsLeap(y) == (y % 4 = 0 /\ y % 100 # 0) \/ y % 400 = 0

DaysInMonth(y, m) ==
    IF m = 2 THEN (IF IsLeap(y) THEN 29 ELSE 28)
    ELSE IF m \in {4, 6, 9, 11} THEN 30 ELSE 31

RECURSIVE DaysBefore(_, _)
\* days of year y that precede month m
DaysBefore(y, m) == IF m <= 1 THEN 0 ELSE DaysBefore(y, m - 1) + DaysInMonth(y, m - 1)

\* NaiveDate as the number of days since 0001-01-01 (proleptic Gregorian)
DaysFromCE(y, m, d) ==
    LET p == y - 1
    IN  p * 365 + (p \div 4) - (p \div 100) + (p \div 400) + DaysBefore(y, m) + d

\* NaiveDate::from_ymd_opt: None unless (y, m, d) is a calendar date of a year
\* chrono represents (year 0 is one)
from_ymd_opt(y, m, d) ==
    IF y \in MinYear..MaxYear /\ m \in 1..12 /\ d \in 1..DaysInMonth(y, m)
    THEN Some(DaysFromCE(y, m, d))
    ELSE None

\* NaiveTime::from_hms_opt: seconds since midnight, None when out of range
from_hms_opt(h, m, s) ==
    IF h \in 0..23 /\ m \in 0..59 /\ s \in 0..59
    THEN Some(h * 3600 + m * 60 + s)
    ELSE None

\* NaiveDateTime::new
NaiveDateTime(date, time) == [date |-> date, secs |-> time]

\* FixedOffset::west_opt: the offset in seconds EAST of UTC, None when a day or more
west_opt(secs) == IF -DaySecs < secs /\ secs < DaySecs THEN Some(-secs) ELSE None

\* DateTime::from_naive_utc_and_offset: the naive date-time is taken as UTC,
\* the offset only says in which local time the instant is displayed
from_naive_utc_and_offset(naive, offset) == [utc |-> naive, offset |-> offset]

\* the DateTime<Utc> of an instant (what Utc::now() returns)
UtcDateTime(naive) == [utc |-> naive, offset |-> 0]

\* ordering of NaiveDateTime
NaiveGt(a, b) == a.date > b.date \/ (a.date = b.date /\ a.secs > b.secs)

\* DateTime<Tz> > DateTime<Tz2>: the instants are compared, offsets play no part
DateTimeGt(a, b) == NaiveGt(a.utc, b.utc)

(***************************************************************************)
(* Strings are sequences of one-character strings; a path is the sequence  *)
(* of its components, each a string.                                       *)
(***************************************************************************)
DigitChar(d) == << "0", "1", "2", "3", "4", "5", "6", "7", "8", "9" >>[d + 1]

RECURSIVE to_string(_)
\* usize::to_string: the decimal digits, most significant first
to_string(n) == IF n < 10 THEN << DigitChar(n) >>
                ELSE to_string(n \div 10) \o << DigitChar(n % 10) >>

\* the day without padding
Pad2None(n) == to_string(n)

\* format!("{:02}", n): zero-padded to a width of AT LEAST two
Pad2(n) == IF Len(to_string(n)) < 2 THEN << "0" >> \o to_string(n) ELSE to_string(n)

\* PathBuf::push / Path::join of a relative component
Join(path, component) == Append(path, component)

\* the directory a path lies in
Parent(path) == SubSeq(path, 1, Len(path) - 1)

\* AoC::loc over the fields it reads
LocOf(base, year, day) ==
    Join(Join(base, to_string(year)), << "d", "a", "y" >> \o Pad2(day) \o << ".", "t", "x", "t" >>)

WhiteSpace == { " ", "\n" }

RECURSIVE trim_end(_)
\* str::trim_end
trim_end(s) == IF s = << >> THEN s
               ELSE IF s[Len(s)] \in WhiteSpace THEN trim_end(SubSeq(s, 1, Len(s) - 1))
               ELSE s

\* String::truncate
truncate(s, len) == IF len < Len(s) THEN SubSeq(s, 1, len) ELSE s

(***************************************************************************)
(* The inputs of the model.                                                *)
(***************************************************************************)
\* the clients; each is one AoC value, all of them share the file system
Clients == { 1, 2 }

\* the base cache directory handed to the constructors
Base == << << "D" >> >>

\* the years construction is asked for, and those it accepts
YearInputs == { 0, 2020, 2999, 3000, 3001 }
ClientYears == { y \in YearInputs : y < YearLimit }

\* the days read_or_fetch is asked for
Days == { 0, 1, 25, 26 }

\* what the service sends, and what a cache file may hold
Texts == { "a", "b" }

\* the instants around the two candidate release boundaries of a December day:
\* the second before 00:00 UTC, 00:00 UTC, the second before 05:00 UTC, 05:00 UTC
Around(year, day) ==
    { NaiveDateTime(DaysFromCE(year, December, day) - 1, DaySecs - 1),
      NaiveDateTime(DaysFromCE(year, December, day), 0),
      NaiveDateTime(DaysFromCE(year, December, day), WestSecs - 1),
      NaiveDateTime(DaysFromCE(year, December, day), WestSecs) }

\* the instants the clock shows
Clock == Around(2020, 1) \cup Around(2020, 25)

\* a file of the file system: whether its metadata can be read (Path::exists is
\* false where it cannot: a directory without search permission, a dangling
\* symlink), whether read_to_string succeeds on it, and its text
File(readable, data) == [stat |-> TRUE, readable |-> readable, data |-> data]
Unreadable == File(FALSE, "")
Inaccessible == [stat |-> FALSE, readable |-> FALSE, data |-> ""]

\* the cache paths that may hold a file before the first call: those of year 2020,
\* the paths read_or_fetch would derive for days 0 and 26 included
PrePaths == { LocOf(Base, 2020, d) : d \in Days }
PreContents == { File(TRUE, "a"), Unreadable, Inaccessible }
PreFiles == UNION { [S -> PreContents] : S \in { T \in SUBSET PrePaths : Cardinality(T) <= MaxPre } }

\* $TOKEN: None when unset (or not unicode)
EnvTokens == { None, Some(<< "e", "\n" >>) }

\* what a directory holds under the name `tokenfile`: nothing, or a regular file
NoTokenFile == [exists |-> FALSE, readable |-> FALSE, data |-> << >>]
TokenFile(readable, data) == [exists |-> TRUE, readable |-> readable, data |-> data]
TokenEntries == { NoTokenFile, TokenFile(FALSE, << >>),
                  TokenFile(TRUE, << "t", "\n" >>), TokenFile(TRUE, << "u" >>) }

\* the token handed to with_path_and_token by a caller that has one
GivenToken == << "k" >>

(***************************************************************************)
(* State.                                                                  *)
(***************************************************************************)
VARIABLES
    now,        \* the clock: the NaiveDateTime (UTC) Utc::now() returns
    envToken,   \* Option: the value of $TOKEN
    cwd,        \* Option: the depth of the current directory, None when current_dir() fails
    tokenfiles, \* level (0 = root) -> what that ancestor of the cwd holds as `tokenfile`
    files,      \* the regular files below the cache directories: path -> File
    dirs,       \* the directories that exist
    client,     \* client -> the AoC value and how its construction ended
    call,       \* client -> the read_or_fetch call in progress or last finished
    returned,   \* history: client -> day -> Some(the text an EARLIER call returned Ok) or None
    search      \* the loop of find_tokenfile: where it is, its `path`, what it returned

vars == << now, envToken, cwd, tokenfiles, files, dirs, client, call, returned, search >>

\* Result<String, Error> of read_or_fetch; kind "none" before a call has returned
Result(kind, text, day, cause) == [kind |-> kind, text |-> text, day |-> day, cause |-> cause]
NoResult == Result("none", "", 0, "")
Ok(text) == Result("Ok", text, 0, "")
DayZero == Result("DayZero", "", 0, "")
OutOfBounds == Result("OutOfBounds", "", 0, "")
NotYetReleased(day) == Result("NotYetReleased", "", day, "")
Reqwest(cause) == Result("Reqwest", "", 0, cause)
Io(cause) == Result("Io", "", 0, cause)

\* no request sent
NoRequest == [year |-> 0, day |-> 0, cookie |-> << >>]

NewClient == [state |-> "new", year |-> 0, path |-> << >>, token |-> << >>]

\* the clock before any instant of Clock
Epoch == NaiveDateTime(0, 0)

\* a call: where it is, its argument, the text it fetched and what it returned, and
\* what it did: the cache reads, network requests and cache writes it made, what the
\* cache read saw, how the gate check ended and the instant Utc::now() gave it, the
\* request it sent and how the network and the cache write answered
IdleCall == [pc |-> "idle", day |-> 0, text |-> "", result |-> NoResult,
             nRead |-> 0, nNet |-> 0, nWrite |-> 0,
             seen |-> "none", gate |-> "none", at |-> Epoch,
             req |-> NoRequest, net |-> "none", wrote |-> "none"]

\* find_tokenfile not called yet; its `path` is the level of the directory (0 = root)
IdleSearch == [pc |-> "idle", path |-> 0, result |-> None]

InitClients ==
    /\ client = [c \in Clients |-> NewClient]
    /\ call = [c \in Clients |-> IdleCall]
    /\ returned = [c \in Clients |-> [d \in Days |-> None]]
    /\ search = IdleSearch

\* a cache directory that may already hold a file; no token in the environment
Init ==
    /\ now \in Clock
    /\ envToken = None
    /\ cwd = Some(0)
    /\ tokenfiles = [i \in 0..0 |-> NoTokenFile]
    /\ files \in PreFiles
    /\ dirs = { Parent(p) : p \in DOMAIN files }
    /\ InitClients

\* any environment of the credential resolver; an empty cache directory
InitCred ==
    /\ now \in Clock
    /\ envToken \in EnvTokens
    /\ cwd \in { None } \cup { Some(d) : d \in 0..MaxDepth }
    /\ tokenfiles \in IF IsSome(cwd) THEN [0..Unwrap(cwd) -> TokenEntries]
                      ELSE { [i \in 0..0 |-> NoTokenFile] }
    /\ files = << >>
    /\ dirs = { }
    /\ InitClients

(***************************************************************************)
(* Construction.                                                           *)
(***************************************************************************)
Constructed(c, year, path, token) ==
    [client EXCEPT ![c] = [state |-> "ready", year |-> year, path |-> path, token |-> token]]
Panicked(c) == [client EXCEPT ![c].state = "panicked"]
Failed(c) == [client EXCEPT ![c].state = "failed"]

\* AoC::with_path_and_token: the year assertion, create_dir_all (mkdirOk: whether
\* the file system lets it succeed), then the AoC value; where no AoC value
\* results the record keeps the year that was asked for
with_path_and_token(c, year, path, token, mkdirOk) ==
    IF ~(year < YearLimit)
    THEN client' = [Panicked(c) EXCEPT ![c].year = year] /\ dirs' = dirs
    ELSE IF ~mkdirOk
    THEN client' = [Failed(c) EXCEPT ![c].year = year] /\ dirs' = dirs
    ELSE /\ dirs' = dirs \cup { path, Join(path, to_string(year)) }
         /\ client' = Constructed(c, year, path, token)

\* `tokenpath.is_file()` for the `tokenfile` of the ancestor at a level
is_file(level) == tokenfiles[level].exists

RECURSIVE SearchUp(_)
\* the loop of find_tokenfile from a level: the first level that holds a tokenfile;
\* `path.pop()` is false at the root (level 0), which ends the loop with None
SearchUp(level) ==
    IF is_file(level) THEN Some(level)
    ELSE IF level > 0 THEN SearchUp(level - 1)
    ELSE None

\* AoC::find_tokenfile, when current_dir() succeeds: Option of the level found
find_tokenfile == SearchUp(Unwrap(cwd))

\* pop that reports a parent and leaves the path where it is
pop_stay(level) == [ok |-> TRUE, path |-> level]

\* PathBuf::pop: whether the path had a parent, and the path after the call
pop(level) ==
    IF level > 0 THEN [ok |-> TRUE, path |-> level - 1] ELSE [ok |-> FALSE, path |-> level]

\* find_tokenfile: `std::env::current_dir()?`
FindStart ==
    /\ search.pc = "idle"
    /\ search' = IF IsSome(cwd) THEN [pc |-> "loop", path |-> Unwrap(cwd), result |-> None]
                  ELSE [pc |-> "failed", path |-> 0, result |-> None]
    /\ UNCHANGED << now, envToken, cwd, tokenfiles, files, dirs, client, call, returned >>

\* find_tokenfile: one round of the `while { .. path.pop() } {}` loop
FindStep ==
    /\ search.pc = "loop"
    /\ search' = IF is_file(search.path)
                  THEN [search EXCEPT !.pc = "done", !.result = Some(search.path)]
                  ELSE IF pop(search.path).ok
                  THEN [search EXCEPT !.path = pop(search.path).path]
                  ELSE [search EXCEPT !.pc = "done", !.path = pop(search.path).path]
    /\ UNCHANGED << now, envToken, cwd, tokenfiles, files, dirs, client, call, returned >>

\* std::fs::read_to_string(tokenpath).ok()
ReadTokenFile(level) ==
    IF tokenfiles[level].readable THEN Some(tokenfiles[level].data) ELSE None

\* ResolveToken with the two sources tried in the other order
ResolveTokenFileFirst ==
    LET tokenpath == find_tokenfile
        content == IF IsSome(tokenpath) THEN ReadTokenFile(Unwrap(tokenpath)) ELSE None
    IN  IF IsSome(content)
        THEN Some(truncate(Unwrap(content), Len(trim_end(Unwrap(content)))))
        ELSE envToken

\* with_path: the token, `env::var("TOKEN").ok().or_else(|| tokenfile, end-trimmed)`
ResolveToken ==
    IF IsSome(envToken) THEN envToken
    ELSE LET tokenpath == find_tokenfile
             content == IF IsSome(tokenpath) THEN ReadTokenFile(Unwrap(tokenpath)) ELSE None
         IN  IF IsSome(content)
             THEN Some(truncate(Unwrap(content), Len(trim_end(Unwrap(content)))))
             ELSE None

\* with_path falling back to an empty token instead of panicking
with_path_default(c, year, path, mkdirOk) ==
    IF cwd = None
    THEN client' = Failed(c) /\ dirs' = dirs
    ELSE with_path_and_token(c, year, path,
                             IF ResolveToken = None THEN << >> ELSE Unwrap(ResolveToken),
                             mkdirOk)

\* AoC::with_path
with_path(c, year, path, mkdirOk) ==
    IF cwd = None
    THEN client' = Failed(c) /\ dirs' = dirs
    ELSE IF ResolveToken = None
    THEN client' = Panicked(c) /\ dirs' = dirs
    ELSE with_path_and_token(c, year, path, Unwrap(ResolveToken), mkdirOk)

\* a caller constructs client c with a token of its own
WithPathAndToken(c) ==
    /\ client[c].state = "new"
    /\ \E year \in YearInputs, mkdirOk \in BOOLEAN :
          with_path_and_token(c, year, Base, GivenToken, mkdirOk)
    /\ UNCHANGED << now, envToken, cwd, tokenfiles, files, call, returned, search >>

\* a caller constructs client c through the credential resolver
WithPath(c) ==
    /\ client[c].state = "new"
    /\ \E year \in YearInputs, mkdirOk \in BOOLEAN : with_path(c, year, Base, mkdirOk)
    /\ UNCHANGED << now, envToken, cwd, tokenfiles, files, call, returned, search >>

(***************************************************************************)
(* read_or_fetch, in the steps between which another process can act:      *)
(* validation and cache read; gate check and network fetch; cache write.   *)
(***************************************************************************)
\* loc that names the file of day 1 whatever the day
loc_fixed(c, day) == LocOf(client[c].path, client[c].year, 1)

\* AoC::loc
loc(c, day) == LocOf(client[c].path, client[c].year, day)

\* read that never finds the file
read_never(c, day) == [err |-> FALSE, val |-> None]

\* Path::exists: true only when the metadata of the path can be read
exists(path) == path \in DOMAIN files /\ files[path].stat

\* AoC::read: io::Result<Option<String>>
read(c, day) ==
    LET path == loc(c, day)
    IN  IF ~exists(path) THEN [err |-> FALSE, val |-> None]
        ELSE IF files[path].readable THEN [err |-> FALSE, val |-> Some(files[path].data)]
        ELSE [err |-> TRUE, val |-> None]

\* the history of a client's Ok returns, extended by its last finished call
Remember(c) ==
    IF call[c].pc = "done" /\ call[c].result.kind = "Ok"
    THEN [returned EXCEPT ![c][call[c].day] = Some(call[c].result.text)]
    ELSE returned

\* Validate without the check for day 0
ValidateNoZero(day) == IF day > LastDay THEN Some(OutOfBounds) ELSE None

\* Validate with the upper check off by one
ValidateOffByOne(day) ==
    IF day = 0 THEN Some(DayZero)
    ELSE IF day > LastDay + 1 THEN Some(OutOfBounds)
    ELSE None

\* read_or_fetch: the checks of its argument; Some(the error returned) or None
Validate(day) ==
    IF day = 0 THEN Some(DayZero)
    ELSE IF day > LastDay THEN Some(OutOfBounds)
    ELSE None

\* read_or_fetch up to and including `self.read(day)?` and the return on a hit
read_or_fetch(c, day) ==
    /\ client[c].state = "ready"
    /\ call[c].pc \in { "idle", "done" }
    /\ LET fresh == [IdleCall EXCEPT !.day = day]
           r == read(c, day)
       IN  call' = [call EXCEPT ![c] =
              IF IsSome(Validate(day))
              THEN [fresh EXCEPT !.pc = "done", !.result = Unwrap(Validate(day))]
              ELSE IF r.err
              THEN [fresh EXCEPT !.pc = "done", !.nRead = 1, !.seen = "error",
                                 !.result = Io("read")]
              ELSE IF IsSome(r.val)
              THEN [fresh EXCEPT !.pc = "done", !.nRead = 1, !.seen = "hit",
                                 !.result = Ok(Unwrap(r.val))]
              ELSE [fresh EXCEPT !.pc = "miss", !.nRead = 1, !.seen = "absent"]]
    /\ returned' = Remember(c)
    /\ UNCHANGED << now, envToken, cwd, tokenfiles, files, dirs, client, search >>

\* fetch: the release boundary `starts`; None where an unwrap in it panics
starts(year, day) ==
    LET date == from_ymd_opt(year, December, day)
        time == from_hms_opt(0, 0, 0)
        offset == west_opt(WestSecs)
    IN  IF IsSome(date) /\ IsSome(time) /\ IsSome(offset)
        THEN Some(from_naive_utc_and_offset(NaiveDateTime(Unwrap(date), Unwrap(time)),
                                            Unwrap(offset)))
        ELSE None

\* a gate check that never blocks
NotYetNever(boundary, instant) == FALSE

\* fetch: the gate check, `starts > Utc::now()`
NotYet(boundary, instant) == DateTimeGt(boundary, UtcDateTime(instant))

\* what the network answers: the body text, or a failure of send(),
\* error_for_status() or text()
NetOutcomes ==
    { [ok |-> TRUE, text |-> t, cause |-> ""] : t \in Texts }
    \cup { [ok |-> FALSE, text |-> "", cause |-> k] : k \in { "send", "status", "text" } }

\* the GET request of fetch
Request(c, day) == [year |-> client[c].year, day |-> day, cookie |-> client[c].token]

\* fetch that waits while another client holds a fetched text for the same cache file
fetch_locked(c) ==
    /\ call[c].pc = "miss"
    /\ \A o \in Clients \ { c } :
          ~(call[o].pc = "fetched" /\ loc(o, call[o].day) = loc(c, call[c].day))
    /\ \E net \in NetOutcomes :
          LET day == call[c].day
              boundary == starts(client[c].year, day)
          IN  call' = [call EXCEPT ![c] =
                 IF boundary = None THEN [@ EXCEPT !.pc = "panicked"]
                 ELSE IF NotYet(Unwrap(boundary), now)
                 THEN [@ EXCEPT !.pc = "done", !.gate = "blocked", !.at = now,
                                !.result = NotYetReleased(day)]
                 ELSE IF net.ok
                 THEN [@ EXCEPT !.pc = "fetched", !.gate = "passed", !.at = now,
                                !.nNet = @ + 1, !.req = Request(c, day), !.net = "ok",
                                !.text = net.text]
                 ELSE [@ EXCEPT !.pc = "done", !.gate = "passed", !.at = now,
                                !.nNet = @ + 1, !.req = Request(c, day), !.net = "failed",
                                !.result = Reqwest(net.cause)]]
    /\ UNCHANGED << now, envToken, cwd, tokenfiles, files, dirs, client, returned, search >>

\* fetch that sends the request a second time when the first one fails
fetch_retry(c) ==
    /\ call[c].pc = "miss"
    /\ \E net \in NetOutcomes :
          LET day == call[c].day
              boundary == starts(client[c].year, day)
          IN  call' = [call EXCEPT ![c] =
                 IF boundary = None THEN [@ EXCEPT !.pc = "panicked"]
                 ELSE IF NotYet(Unwrap(boundary), now)
                 THEN [@ EXCEPT !.pc = "done", !.gate = "blocked", !.at = now,
                                !.result = NotYetReleased(day)]
                 ELSE IF net.ok
                 THEN [@ EXCEPT !.pc = "fetched", !.gate = "passed", !.at = now,
                                !.nNet = @ + 1, !.req = Request(c, day), !.net = "ok",
                                !.text = net.text]
                 ELSE [@ EXCEPT !.pc = "done", !.gate = "passed", !.at = now,
                                !.nNet = @ + 2, !.req = Request(c, day), !.net = "failed",
                                !.result = Reqwest(net.cause)]]
    /\ UNCHANGED << now, envToken, cwd, tokenfiles, files, dirs, client, returned, search >>

\* AoC::fetch: the gate check against Utc::now(), then the request
fetch(c) ==
    /\ call[c].pc = "miss"
    /\ \E net \in NetOutcomes :
          LET day == call[c].day
              boundary == starts(client[c].year, day)
          IN  call' = [call EXCEPT ![c] =
                 IF boundary = None THEN [@ EXCEPT !.pc = "panicked"]
                 ELSE IF NotYet(Unwrap(boundary), now)
                 THEN [@ EXCEPT !.pc = "done", !.gate = "blocked", !.at = now,
                                !.result = NotYetReleased(day)]
                 ELSE IF net.ok
                 THEN [@ EXCEPT !.pc = "fetched", !.gate = "passed", !.at = now,
                                !.nNet = @ + 1, !.req = Request(c, day), !.net = "ok",
                                !.text = net.text]
                 ELSE [@ EXCEPT !.pc = "done", !.gate = "passed", !.at = now,
                                !.nNet = @ + 1, !.req = Request(c, day), !.net = "failed",
                                !.result = Reqwest(net.cause)]]
    /\ UNCHANGED << now, envToken, cwd, tokenfiles, files, dirs, client, returned, search >>

\* write that reports success without storing anything
write_skip(c) ==
    /\ call[c].pc = "fetched"
    /\ files' = files
    /\ call' = [call EXCEPT ![c] = [@ EXCEPT !.pc = "done", !.nWrite = @ + 1, !.wrote = "ok",
                                             !.result = Ok(call[c].text)]]
    /\ UNCHANGED << now, envToken, cwd, tokenfiles, dirs, client, returned, search >>

\* write that stores another text than the one fetched
write_other(c) ==
    /\ call[c].pc = "fetched"
    /\ files' = (loc(c, call[c].day) :> File(TRUE, "")) @@ files
    /\ call' = [call EXCEPT ![c] = [@ EXCEPT !.pc = "done", !.nWrite = @ + 1, !.wrote = "ok",
                                             !.result = Ok(call[c].text)]]
    /\ UNCHANGED << now, envToken, cwd, tokenfiles, dirs, client, returned, search >>

\* write whose failure is swallowed: the fetched text is returned all the same
write_lenient(c) ==
    /\ call[c].pc = "fetched"
    /\ \E writeOk \in BOOLEAN :
          LET path == loc(c, call[c].day)
          IN  IF writeOk /\ Parent(path) \in dirs
              THEN /\ files' = (path :> File(TRUE, call[c].text)) @@ files
                   /\ call' = [call EXCEPT ![c] = [@ EXCEPT !.pc = "done", !.nWrite = @ + 1,
                                                            !.wrote = "ok",
                                                            !.result = Ok(call[c].text)]]
              ELSE /\ files' = files
                   /\ call' = [call EXCEPT ![c] = [@ EXCEPT !.pc = "done", !.nWrite = @ + 1,
                                                            !.wrote = "failed",
                                                            !.result = Ok(call[c].text)]]
    /\ UNCHANGED << now, envToken, cwd, tokenfiles, dirs, client, returned, search >>

\* AoC::write and the return of read_or_fetch (writeOk: whether the file
\* system lets std::fs::write succeed)
write(c) ==
    /\ call[c].pc = "fetched"
    /\ \E writeOk \in BOOLEAN :
          LET path == loc(c, call[c].day)
          IN  IF writeOk /\ Parent(path) \in dirs
              THEN /\ files' = (path :> File(TRUE, call[c].text)) @@ files
                   /\ call' = [call EXCEPT ![c] = [@ EXCEPT !.pc = "done", !.nWrite = @ + 1,
                                                            !.wrote = "ok",
                                                            !.result = Ok(call[c].text)]]
              ELSE /\ files' = files
                   /\ call' = [call EXCEPT ![c] = [@ EXCEPT !.pc = "done", !.nWrite = @ + 1,
                                                            !.wrote = "failed",
                                                            !.result = Io("write")]]
    /\ UNCHANGED << now, envToken, cwd, tokenfiles, dirs, client, returned, search >>

\* time passes
Tick ==
    /\ \E t \in Clock : NaiveGt(t, now) /\ now' = t
    /\ UNCHANGED << envToken, cwd, tokenfiles, files, dirs, client, call, returned, search >>

(***************************************************************************)
(* The specifications.                                                     *)
(***************************************************************************)
\* one client, constructed with a token, making calls one after another
Next ==
    \/ WithPathAndToken(1)
    \/ \E day \in Days : read_or_fetch(1, day)
    \/ fetch(1)
    \/ write(1)
    \/ Tick

Spec == Init /\ [][Next]_vars

\* one client, constructed through the credential resolver, making calls
NextCred ==
    \/ WithPath(1)
    \/ \E day \in Days : read_or_fetch(1, day)
    \/ fetch(1)
    \/ write(1)

SpecCred == InitCred /\ [][NextCred]_vars

\* the days of the calls of the two clients
RaceDays == { 1, 25 }

\* an empty cache directory, after every release of 2020
InitRace ==
    /\ now = NaiveDateTime(DaysFromCE(2020, December, 25), WestSecs)
    /\ envToken = None
    /\ cwd = Some(0)
    /\ tokenfiles = [i \in 0..0 |-> NoTokenFile]
    /\ files = << >>
    /\ dirs = { }
    /\ InitClients

\* two clients on one cache directory, their calls interleaved step by step
NextRace ==
    \/ \E c \in Clients : WithPathAndToken(c)
    \/ \E c \in Clients, day \in RaceDays : read_or_fetch(c, day)
    \/ \E c \in Clients : fetch(c)
    \/ \E c \in Clients : write(c)

SpecRace == InitRace /\ [][NextRace]_vars

\* what the directories on the way up hold under the name `tokenfile`
SearchEntries == { NoTokenFile, TokenFile(FALSE, << >>), TokenFile(TRUE, << "u" >>) }

\* any current directory down to MaxClimb levels below the root, any tokenfiles
InitSearch ==
    /\ now = NaiveDateTime(DaysFromCE(2020, December, 25), WestSecs)
    /\ envToken = None
    /\ cwd \in { None } \cup { Some(d) : d \in 0..MaxClimb }
    /\ tokenfiles \in IF IsSome(cwd) THEN [0..Unwrap(cwd) -> SearchEntries]
                      ELSE { [i \in 0..0 |-> NoTokenFile] }
    /\ files = << >>
    /\ dirs = { }
    /\ InitClients

\* find_tokenfile taken step by step
NextSearch ==
    \/ FindStart
    \/ FindStep

\* the loop is sequential code: a round that can be taken is taken
SpecSearch == InitSearch /\ [][NextSearch]_vars /\ WF_vars(NextSearch)

(***************************************************************************)
(* Vocabulary of the properties.                                           *)
(***************************************************************************)
\* the days the service defines
ValidDays == 1..25

\* the call of client c has returned
Done(c) == call[c].pc = "done"

\* the cache path of a day for client c, as the cache layout states it
CachePath(c, day) == LocOf(client[c].path, client[c].year, day)

\* the cache holds a text for the day of client c
Cached(c, day) == CachePath(c, day) \in DOMAIN files /\ files[CachePath(c, day)].readable

\* the release boundary as specified: local midnight of December `day` in UTC-5,
\* which is 05:00 UTC of that date
LocalMidnight(year, day) == NaiveDateTime(DaysFromCE(year, December, day), 5 * 3600)

\* instant a is strictly earlier than instant b
Earlier(a, b) == NaiveGt(b, a)

\* the call of client c missed the cache and read the clock for its gate check
GateChecked(c) == call[c].seen = "absent" /\ call[c].gate # "none"

(***************************************************************************)
(* C1: a call for a day in 1..25 whose cache file holds a text returns     *)
(* that text in the same step, with no gate check, no network request and  *)
(* no change to the cache, whatever the clock shows.                       *)
(***************************************************************************)
C1_CacheHit ==
    [][ \A d \in Days :
          (read_or_fetch(1, d) /\ d \in ValidDays /\ Cached(1, d))
          => /\ call'[1].pc = "done"
             /\ call'[1].result = Ok(files[CachePath(1, d)].data)
             /\ call'[1].nNet = 0
             /\ call'[1].gate = "none"
             /\ files' = files ]_vars

\* a hit returned while the clock is before both candidate boundaries of the day
C1_Witness ==
    /\ Done(1) /\ call[1].seen = "hit" /\ call[1].day \in ValidDays
    /\ call[1].result = Ok("a")
    /\ Earlier(now, NaiveDateTime(DaysFromCE(client[1].year, December, call[1].day), 0))

C5_Claim ==
    (Done(1) /\ call[1].day \in ValidDays /\ GateChecked(1)
        /\ Earlier(call[1].at, LocalMidnight(client[1].year, call[1].day)))
    => /\ call[1].result = NotYetReleased(call[1].day)
       /\ call[1].nNet = 0
       /\ ~Cached(1, call[1].day)

(***************************************************************************)
(* C6 as stated: the gate check of a call that missed the cache blocks     *)
(* exactly at the instants strictly before 05:00 UTC of December `day`.    *)
(***************************************************************************)
C6_Claim ==
    (call[1].day \in ValidDays /\ GateChecked(1))
    => (call[1].gate = "blocked"
          <=> Earlier(call[1].at, LocalMidnight(client[1].year, call[1].day)))

C8_Idempotent ==
    (call[1].pc # "idle" /\ IsSome(returned[1][call[1].day]))
    => /\ Done(1)
       /\ call[1].result = Ok(Unwrap(returned[1][call[1].day]))
       /\ call[1].nNet = 0

\* the text came from the network in an earlier call and is returned again
C8_Witness ==
    /\ Done(1) /\ returned[1][call[1].day] = Some("b")
    /\ call[1].result = Ok("b") /\ call[1].nNet = 0

(***************************************************************************)
(* C9: with $TOKEN set and a readable tokenfile of another content on the  *)
(* way up from the cwd, the client's token is the value of $TOKEN.         *)
(***************************************************************************)
C9_EnvTokenWins ==
    (/\ client[1].state = "ready"
     /\ IsSome(envToken)
     /\ cwd # None
     /\ \E l \in DOMAIN tokenfiles :
           /\ tokenfiles[l].exists /\ tokenfiles[l].readable
           /\ tokenfiles[l].data # Unwrap(envToken))
    => client[1].token = Unwrap(envToken)

C9_Witness ==
    /\ client[1].state = "ready"
    /\ envToken = Some(<< "e", "\n" >>)
    /\ tokenfiles[Unwrap(cwd)] = TokenFile(TRUE, << "t", "\n" >>)
    /\ client[1].token = << "e", "\n" >>

(***************************************************************************)
(* C10: with $TOKEN unset and no readable tokenfile on the way up from the *)
(* cwd, construction ends without a client (in a panic whenever the cwd    *)
(* can be determined); a call never ends in a panic or in another error    *)
(* than those of read_or_fetch, and its request carries the client's       *)
(* token.                                                                  *)
(***************************************************************************)
NoTokenYield ==
    /\ envToken = None
    /\ \A l \in DOMAIN tokenfiles : ~(tokenfiles[l].exists /\ tokenfiles[l].readable)

C10_NoTokenNoClient ==
    /\ (NoTokenYield /\ client[1].state # "new")
       => /\ client[1].state \in { "panicked", "failed" }
          /\ cwd # None => client[1].state = "panicked"
    /\ call[1].pc # "idle"
       => /\ client[1].state = "ready"
          /\ call[1].pc # "panicked"
          /\ call[1].result.kind \in { "none", "Ok", "DayZero", "OutOfBounds",
                                       "NotYetReleased", "Reqwest", "Io" }
    /\ call[1].nNet > 0 => call[1].req.cookie = client[1].token

\* construction panicked under a tokenfile that exists and cannot be read
C10_Witness ==
    /\ NoTokenYield /\ client[1].state = "panicked"
    /\ cwd # None /\ tokenfiles[Unwrap(cwd)].exists

(***************************************************************************)
(* C11: the cache key.                                                     *)
(***************************************************************************)
\* the day as exactly two decimal digits
TwoDigits(d) == << DigitChar(d \div 10), DigitChar(d % 10) >>

\* <base>/<year>/day<NN>.txt
KeyOf(base, year, d) ==
    base \o << to_string(year), << "d", "a", "y" >> \o TwoDigits(d) \o << ".", "t", "x", "t" >> >>

\* D/2020/day01.txt
D_2020_day01 ==
    << << "D" >>, << "2", "0", "2", "0" >>, << "d", "a", "y", "0", "1", ".", "t", "x", "t" >> >>

\* the (year, day) pairs a client can ask the cache for
Keys == ClientYears \X ValidDays

\* AoC::loc yields <base>/<year>/day<NN>.txt, one path per (year, day)
LocIsKey ==
    /\ LocOf(Base, 2020, 1) = D_2020_day01
    /\ \A k \in Keys : LocOf(Base, k[1], k[2]) = KeyOf(Base, k[1], k[2])
    /\ \A k1, k2 \in Keys : k1 # k2 => LocOf(Base, k1[1], k1[2]) # LocOf(Base, k2[1], k2[2])

\* the step of a call that reads the cache, and the step that writes it
ReadStep ==
    /\ call[1].pc \in { "idle", "done" } /\ call'[1].nRead = 1
    /\ now' = now /\ client' = client
WriteStep == call[1].pc = "fetched" /\ call'[1].wrote = "ok"

\* the key of the call in progress after the step
KeyNow == KeyOf(client[1].path, client[1].year, call'[1].day)

\* C11: for every year and every day in 1..25 the cache read and the cache write
\* of a call use exactly the path <base>/<year>/day<NN>.txt (D/2020/day01.txt for
\* year 2020 and day 1), and distinct (year, day) pairs have distinct paths
C11_CacheKey ==
    [][ /\ LocIsKey
        /\ ReadStep =>
              /\ call'[1].seen = "hit" =>
                    /\ exists(KeyNow) /\ files[KeyNow].readable
                    /\ call'[1].result = Ok(files[KeyNow].data)
              /\ call'[1].seen = "absent" => ~exists(KeyNow)
              /\ call'[1].seen = "error" => exists(KeyNow) /\ ~files[KeyNow].readable
        /\ WriteStep =>
              files' = (KeyNow :> File(TRUE, call[1].text)) @@ files ]_vars

\* a call for day 1 of 2020 fetched the text and stored it in D/2020/day01.txt
C11_Witness ==
    /\ Done(1) /\ call[1].day = 1 /\ client[1].year = 2020
    /\ call[1].seen = "absent" /\ call[1].wrote = "ok"
    /\ D_2020_day01 \in DOMAIN files
    /\ files[D_2020_day01] = File(TRUE, call[1].text)

(***************************************************************************)
(* C12: the year check of construction.                                    *)
(***************************************************************************)
\* C12: construction panics if the year is more than 3000, and the year check
\* rejects no year up to and including 3000
C12_Claim ==
    client[1].state # "new" =>
        (client[1].state = "panicked" <=> client[1].year > 3000)

(***************************************************************************)
(* C13: a cache write that fails.                                          *)
(***************************************************************************)
\* C13: when the network fetch succeeds and the cache write after it fails, the
\* call returns the I/O error of the write and not the fetched text
C13_WriteFailure ==
    (Done(1) /\ call[1].net = "ok" /\ call[1].wrote = "failed") =>
        /\ call[1].result = Io("write")
        /\ call[1].result # Ok(call[1].text)

\* a call fetched a text, could not store it and returned the I/O error
C13_Witness ==
    /\ Done(1) /\ call[1].day \in ValidDays
    /\ call[1].nNet = 1 /\ call[1].net = "ok" /\ call[1].text \in Texts
    /\ call[1].nWrite = 1 /\ call[1].wrote = "failed"
    /\ call[1].result.kind = "Io"

(***************************************************************************)
(* C14: cache reads that fail.                                             *)
(***************************************************************************)
\* C14: only the absence of the cache file is a miss: with the file absent the
\* call goes on to the gate check; with a file that is there and cannot be read
\* the call returns the storage error without gate check, request or cache write
C14_Claim ==
    (call[1].nRead = 1 /\ call[1].wrote # "ok") =>
        LET path == CachePath(1, call[1].day)
        IN  /\ path \notin DOMAIN files => call[1].seen = "absent"
            /\ (path \in DOMAIN files /\ ~files[path].readable) =>
                  /\ Done(1) /\ call[1].result = Io("read")
                  /\ call[1].gate = "none" /\ call[1].nNet = 0 /\ call[1].nWrite = 0

(***************************************************************************)
(* C15: a network fetch that fails.                                        *)
(***************************************************************************)
\* C15: when the network fetch fails, the call returns that error after exactly
\* one request, writes nothing to the cache, and the cache entry of the day
\* stays absent
C15_FetchFailure ==
    (Done(1) /\ call[1].net = "failed") =>
        /\ call[1].result.kind = "Reqwest"
        /\ call[1].result.cause \in { "send", "status", "text" }
        /\ call[1].nNet = 1
        /\ call[1].nWrite = 0 /\ call[1].wrote = "none"
        /\ ~exists(CachePath(1, call[1].day))

\* the service answered a request for a released day with a non-success status
C15_Witness ==
    /\ Done(1) /\ call[1].day \in ValidDays
    /\ call[1].seen = "absent" /\ call[1].gate = "passed"
    /\ call[1].net = "failed" /\ call[1].result = Reqwest("status")
    /\ CachePath(1, call[1].day) \notin DOMAIN files

(***************************************************************************)
(* C16: written at most once.                                              *)
(***************************************************************************)
\* C16: over calls made one after another on a cache nobody else touches, a
\* cache entry is written at most once: a call gets to its cache write only for
\* an entry that is not there, and no step changes or removes an entry that is
C16_WrittenOnce ==
    [][ /\ call[1].pc = "fetched" => ~exists(CachePath(1, call[1].day))
        /\ \A p \in DOMAIN files :
              exists(p) => p \in DOMAIN files' /\ files'[p] = files[p] ]_vars

\* a later call for a day whose entry is there returned it and wrote nothing
C16_Witness ==
    /\ Done(1) /\ call[1].seen = "hit" /\ call[1].nWrite = 0
    /\ returned[1][call[1].day] = Some("a")
    /\ files[CachePath(1, call[1].day)] = File(TRUE, "a")

(***************************************************************************)
(* C17: two clients on one cache directory.                                *)
(***************************************************************************)
\* client c is between its cache miss and the end of its call
InFlight(c) == call[c].pc \in { "miss", "fetched" }

\* C17: nothing locks the cache or detects a conflict: a client that saw a miss
\* can always go on to its fetch, and one that fetched to its cache write,
\* whatever another client sharing the cache directory is doing with the same
\* cache file, and a ready client can always start a call
C17_NoLocking ==
    \A c \in Clients :
        /\ call[c].pc = "miss" => ENABLED fetch(c)
        /\ call[c].pc = "fetched" => ENABLED write(c)
        /\ (client[c].state = "ready" /\ ~InFlight(c)) =>
              \A day \in RaceDays : ENABLED read_or_fetch(c, day)

\* the race: both clients saw a miss for the same released day, both sent a
\* request, both wrote the cache file, and the file holds the text of one of them
C17_Witness ==
    /\ client[1].state = "ready" /\ client[2].state = "ready"
    /\ CachePath(1, call[1].day) = CachePath(2, call[2].day)
    /\ \A c \in Clients :
          /\ Done(c) /\ call[c].seen = "absent" /\ call[c].gate = "passed"
          /\ call[c].nNet = 1 /\ call[c].nWrite = 1 /\ call[c].wrote = "ok"
    /\ call[1].result = Ok("a") /\ call[2].result = Ok("b")
    /\ files[CachePath(1, call[1].day)].data \in { "a", "b" }

(***************************************************************************)
(* C18: the tokenfile search.                                              *)
(***************************************************************************)
\* the levels from the cwd up to the root
WayUp == 0..Unwrap(cwd)

\* the search has returned Ok
Found == search.pc = "done"

\* what the search has to return: the nearest level with a tokenfile, and None
\* exactly when no level from the cwd to the root has one
Nearest ==
    /\ IsSome(search.result) =>
          /\ Unwrap(search.result) \in WayUp /\ is_file(Unwrap(search.result))
          /\ \A l \in WayUp : l > Unwrap(search.result) => ~is_file(l)
    /\ search.result = None <=> \A l \in WayUp : ~is_file(l)
    /\ search.result = find_tokenfile

\* C18: the tokenfile search starts at the cwd and goes up one parent at a time; it
\* ends for every depth of the cwd, returns the tokenfile of the nearest directory
\* that has one, and returns None (not an error) exactly when no directory from
\* the cwd up to the root has one
C18_Search ==
    /\ [](search.pc = "loop" =>
             /\ search.path \in WayUp
             /\ \A l \in WayUp : l > search.path => ~is_file(l))
    /\ [](Found => Nearest)
    /\ [](search.pc = "failed" => cwd = None)
    /\ <>(search.pc \in { "done", "failed" })

\* from three levels down the search passed two directories without a tokenfile
\* and returned the one of level 1, although the root has one too
C18_Witness ==
    /\ Found /\ cwd = Some(3)
    /\ ~is_file(3) /\ ~is_file(2) /\ is_file(1) /\ is_file(0)
    /\ search.result = Some(1)

(***************************************************************************)
(* C19: what a call leaves alone.                                          *)
(***************************************************************************)
\* the results of a call that ends before its cache write
NoWriteKinds == { "DayZero", "OutOfBounds", "NotYetReleased", "Reqwest" }

\* C19: a read_or_fetch(d) call changes at most the cache entry of (year, d): every
\* other cache entry, the directories and the client's year, base path and token
\* are as before, and a call that ends in DayZero, OutOfBounds, NotYetReleased or
\* a fetch error has made no step that changed the cache
C19_Frame ==
    [][ /\ client[1].state # "new" => client' = client /\ dirs' = dirs
        /\ \A p \in DOMAIN files \cup DOMAIN files' :
              p # CachePath(1, call'[1].day) =>
                  p \in DOMAIN files /\ p \in DOMAIN files' /\ files'[p] = files[p]
        /\ call'[1].nWrite = 0 => files' = files
        /\ (call'[1].pc = "done" /\ call'[1].result.kind \in NoWriteKinds) =>
              call'[1].nWrite = 0 ]_vars

\* a call for day 25 stored its text while the entry of day 1 stayed as it was
C19_Witness ==
    /\ Done(1) /\ client[1].year = 2020 /\ call[1].day = 25 /\ call[1].wrote = "ok"
    /\ files[CachePath(1, 25)] = File(TRUE, call[1].text)
    /\ CachePath(1, 1) \in DOMAIN files
    /\ files[CachePath(1, 1)] = File(TRUE, "a")

(***************************************************************************)
(* C20: the unwraps of fetch.                                              *)
(***************************************************************************)
\* the call of client c has got past the checks of its argument and the cache read
InFetch(c) == call[c].pc \in { "miss", "fetched" } \/ call[c].gate # "none"

\* C20: the computation of the release boundary never panics: a client has a
\* year below 3000 and a call gets to fetch only with a day in 1..25, so December
\* `day` of `year` is a calendar date and every unwrap in fetch succeeds
C20_NoPanic ==
    /\ call[1].pc # "panicked"
    /\ client[1].state = "ready" => client[1].year < YearLimit
    /\ InFetch(1) =>
          /\ call[1].day \in ValidDays
          /\ IsSome(from_ymd_opt(client[1].year, December, call[1].day))
          /\ IsSome(starts(client[1].year, call[1].day))

\* fetch computed the boundary of the last day of the largest year and of the
\* smallest: 2999-12-25 is still to come
C20_Witness ==
    /\ Done(1) /\ client[1].year = 2999 /\ call[1].day = 25
    /\ call[1].gate = "blocked" /\ call[1].result = NotYetReleased(25)
    /\ IsSome(starts(0, 1))

====
